---- MODULE Spec2Model ----
(***************************************************************************)
(* Mentorship relationship and request lifecycle of learn-loop.            *)
(*                                                                         *)
(* The Student collection is one variable, a function from profile id to   *)
(* document.  A handler loads documents, mutates the in-memory copies and   *)
(* saves them; Mongoose writes only the modified paths, so a save is        *)
(* modelled as the handler's field updates applied to the stored document. *)
(* Sub-documents of an array are never removed from the peer ledgers, so   *)
(* a sub-document's _id is modelled by its position in its array.          *)
(* Every handler also records the request it served and the response it    *)
(* sent, so that error kinds can be stated.                                 *)
(***************************************************************************)
EXTENDS Integers, Sequences, FiniteSets, TLC

VARIABLES students, now, ops, req, res, inflight, emitter, sent

vars == <<students, now, ops, req, res, inflight, emitter, sent>>

(***************************************************************************)
(* Bounds of the model.                                                    *)
(***************************************************************************)
MaxRequests == 2        \* successful sendMentorshipRequest calls
MaxProfileOps == 1      \* successful preference, profile and deletion calls
MaxInflight == 2        \* respond handlers between their load and their save
MaxOfficialRequests == 1 \* successful sendOfficialMentorRequest calls
MaxRatings == 2         \* successful rate calls
MaxNow == 7             \* last day the clock reaches
MaxFaults == 1          \* handler runs in which the store rejects a save

Students == {"A", "B", "C"}
Mentors == {"M", "N"}   \* professional mentor profiles, all active
OfficialTargets == {"M"} \* the mentor the learners address
Subjects == {"X", "Y"}
MaxMenteesChoices == {1, 2}
NULL == -1

(***************************************************************************)
(* Documents.                                                              *)
(***************************************************************************)
AbsentDoc ==
  [exists |-> FALSE, name |-> "", phone |-> "", branch |-> "", year |-> 0,
   currentSemester |-> 0, strongSubjects |-> {}, profileCompleted |-> FALSE,
   mentorPreferences |-> [isAvailableForMentoring |-> TRUE, maxMentees |-> 5],
   incomingRequests |-> <<>>, outgoingRequests |-> <<>>,
   mentors |-> <<>>, mentees |-> <<>>,
   officialOutgoingRequests |-> <<>>, officialActiveMentors |-> <<>>]

SeedDoc(branch, year, semester, strong, available, maxMentees) ==
  [AbsentDoc EXCEPT !.exists = TRUE, !.name = "n", !.phone = "p",
                    !.branch = branch, !.year = year,
                    !.currentSemester = semester, !.strongSubjects = strong,
                    !.profileCompleted = TRUE,
                    !.mentorPreferences =
                       [isAvailableForMentoring |-> available,
                        maxMentees |-> maxMentees]]

NoRating == [score |-> 0, feedback |-> "", ratedAt |-> NULL]

\* index of the first element of seq satisfying P, 0 when there is none
FindIndex(seq, P(_)) ==
  IF \E i \in DOMAIN seq : P(seq[i])
  THEN CHOOSE i \in DOMAIN seq :
         P(seq[i]) /\ \A j \in DOMAIN seq : P(seq[j]) => i <= j
  ELSE 0

ApiError(status, message) == [statusCode |-> status, message |-> message]
ApiResponse(status, message) == [statusCode |-> status, message |-> message]

(***************************************************************************)
(* Instance methods of the Student model.                                  *)
(***************************************************************************)
canMentorSubject(doc, subjectId) == subjectId \in doc.strongSubjects

hasRequestedMentor(doc, mentorId, subjectId) ==
  \E i \in DOMAIN doc.outgoingRequests :
    /\ doc.outgoingRequests[i].mentor_id = mentorId
    /\ doc.outgoingRequests[i].subject_id = subjectId
    /\ doc.outgoingRequests[i].status = "pending"

\* the test comparing the edge's mentor, not its subject, with the subject id
hasMentorForSubjectWrongField(doc, subjectId) ==
  \E i \in DOMAIN doc.mentors :
    doc.mentors[i].mentor_id = subjectId /\ doc.mentors[i].isActive

hasMentorForSubject(doc, subjectId) ==
  \E i \in DOMAIN doc.mentors :
    doc.mentors[i].subject_id = subjectId /\ doc.mentors[i].isActive

getCurrentMenteeCount(doc) ==
  Cardinality({i \in DOMAIN doc.mentees : doc.mentees[i].isActive})

\* the capacity test with <= in place of <
canAcceptMoreMenteesOffByOne(doc) ==
  /\ getCurrentMenteeCount(doc) <= doc.mentorPreferences.maxMentees
  /\ doc.mentorPreferences.isAvailableForMentoring

canAcceptMoreMentees(doc) ==
  /\ getCurrentMenteeCount(doc) < doc.mentorPreferences.maxMentees
  /\ doc.mentorPreferences.isAvailableForMentoring

\* pre("save") hook: the flag is recomputed from the in-memory document
profileComplete(doc) ==
  /\ doc.name # "" /\ doc.phone # "" /\ doc.branch # ""
  /\ doc.year # 0 /\ doc.currentSemester # 0
  /\ doc.strongSubjects # {}

preSave(doc) == [doc EXCEPT !.profileCompleted = profileComplete(doc)]

(***************************************************************************)
(* Route middleware.  "" means the request passes.                         *)
(***************************************************************************)
requireCompleteProfile(u) ==
  IF ~students[u].exists
  THEN ApiError(404, "Student profile not found. Please create your profile first.")
  ELSE IF ~students[u].profileCompleted
  THEN ApiError(400, "Please complete your profile before accessing this feature.")
  ELSE ApiResponse(200, "next")

canAccessMentoring(u) ==
  IF students[u].currentSemester <= 1
  THEN ApiError(400, "Mentoring features are available from 2nd semester onwards")
  ELSE ApiResponse(200, "next")

Passed(r) == r.statusCode < 400

Init ==
  /\ students = [s \in Students |->
       CASE s = "A" -> SeedDoc("Computer", 3, 5, {"X"}, TRUE, 1)
         [] s = "B" -> SeedDoc("Computer", 2, 3, {"X"}, TRUE, 2)
         [] s = "C" -> SeedDoc("Computer", 1, 2, {"X"}, FALSE, 1)]
  /\ now = 0
  /\ ops = [send |-> 0, profile |-> 0, official |-> 0, rate |-> 0, fault |-> 0]
  /\ req = [op |-> "none"]
  /\ res = ApiResponse(200, "none")
  /\ inflight = {}
  /\ emitter = "up"
  /\ sent = <<>>

(***************************************************************************)
(* Notifications.  Every notify function passes one record to               *)
(* createAndSendNotification, which stores it and rethrows what the store  *)
(* throws.  sent holds what the last handler stored; the socket updates    *)
(* that accompany the records are left out.                                *)
(***************************************************************************)
Notification(type, recipient) == [type |-> type, recipient |-> recipient]

notifyMentorshipRequest(recipientId) ==
  Notification("mentorship_request_received", recipientId)

notifyMentorshipResponse(recipientId, status) ==
  Notification(IF status = "accepted" THEN "mentorship_request_accepted"
               ELSE "mentorship_request_rejected", recipientId)

notifyOfficialMentorRequest(recipientId) ==
  Notification("official_mentor_request_received", recipientId)

notifyOfficialMentorResponse(recipientId, status) ==
  Notification(IF status = "accepted" THEN "official_mentor_request_accepted"
               ELSE "official_mentor_request_rejected", recipientId)

notifyNewConnection(recipientId, connectionType) ==
  Notification(IF connectionType = "mentor" THEN "new_mentor_connection"
               ELSE "new_mentee_connection", recipientId)

notifyMenteeRemoved(recipientId) == Notification("mentee_removed", recipientId)

notifyRatingReceived(recipientId) == Notification("rating_received", recipientId)

\* the records a handler stores when it calls the notify functions of ns in
\* turn: the first call throws when the emitter is down
Emit(ns) == IF emitter = "up" THEN ns ELSE <<>>

\* the peer respond handler's try block: after the response notification an
\* accept evaluates mentorRelationship._id, a name declared in another block,
\* which throws a ReferenceError that the catch swallows
respondNotifications(studentId, mentorId, response) ==
  <<notifyMentorshipResponse(studentId, response)>>

\* the mentor account's respond handler
respondOfficialNotifications(studentId, mentorId, response) ==
  <<notifyOfficialMentorResponse(studentId, response)>>
    \o (IF response = "accepted"
        THEN <<notifyNewConnection(studentId, "mentor"),
               notifyNewConnection(mentorId, "mentee")>>
        ELSE <<>>)

\* the notification store starts or stops throwing
setEmitter(e) ==
  /\ e # emitter
  /\ emitter' = e
  /\ req' = [op |-> "none"]
  /\ res' = ApiResponse(200, "none")
  /\ sent' = <<>>
  /\ UNCHANGED <<students, now, ops, inflight>>

(***************************************************************************)
(* POST /mentoring/request                                                 *)
(***************************************************************************)
sendMentorshipRequestCheck(u, mentorId, subjectId) ==
  LET student == students[u]
      mentor == students[mentorId]
  IN IF ~Passed(requireCompleteProfile(u)) THEN requireCompleteProfile(u)
     ELSE IF ~Passed(canAccessMentoring(u)) THEN canAccessMentoring(u)
     ELSE IF ~mentor.exists THEN ApiError(404, "Mentor not found")
     ELSE IF ~canMentorSubject(mentor, subjectId)
     THEN ApiError(400, "Mentor doesn't have this subject as strong subject")
     ELSE IF ~mentor.mentorPreferences.isAvailableForMentoring
     THEN ApiError(400, "Mentor is not available for mentoring")
     ELSE IF ~canAcceptMoreMentees(mentor)
     THEN ApiError(400, "Mentor has reached maximum mentee capacity")
     ELSE IF hasMentorForSubject(student, subjectId)
     THEN ApiError(400, "You already have a mentor for this subject")
     ELSE IF hasRequestedMentor(student, mentorId, subjectId)
     THEN ApiError(400, "Request already sent to this mentor for this subject")
     ELSE IF subjectId \notin Subjects THEN ApiError(404, "Subject not found")
     ELSE IF student.branch # mentor.branch
     THEN ApiError(400, "Can only request mentors from same branch")
     ELSE ApiResponse(201, "Mentorship request sent successfully")

sendMentorshipRequest(u, mentorId, subjectId) ==
  LET r == sendMentorshipRequestCheck(u, mentorId, subjectId)
      newOutgoingRequest ==
        [mentor_id |-> mentorId, subject_id |-> subjectId,
         status |-> "pending", requestedAt |-> now, respondedAt |-> NULL]
      newIncomingRequest ==
        [student_id |-> u, subject_id |-> subjectId,
         status |-> "pending", requestedAt |-> now, respondedAt |-> NULL]
      \* student.save() and mentor.save(): each writes the path it pushed to
      afterStudent ==
        [students EXCEPT ![u] =
           preSave([@ EXCEPT !.outgoingRequests = Append(@, newOutgoingRequest)])]
      afterMentor ==
        [afterStudent EXCEPT ![mentorId] =
           preSave([@ EXCEPT !.incomingRequests = Append(@, newIncomingRequest)])]
  IN /\ req' = [op |-> "sendMentorshipRequest", user |-> u,
                mentorId |-> mentorId, subjectId |-> subjectId]
     /\ res' = r
     /\ IF Passed(r)
        THEN /\ ops.send < MaxRequests
             /\ students' = afterMentor
             /\ ops' = [ops EXCEPT !.send = @ + 1]
        ELSE UNCHANGED <<students, ops>>
     /\ sent' = IF Passed(r) THEN Emit(<<notifyMentorshipRequest(mentorId)>>) ELSE <<>>
     /\ UNCHANGED <<now, inflight, emitter>>

(***************************************************************************)
(* PUT /mentoring/request/respond                                          *)
(* mentor and student are the documents the handler loaded; the saves are  *)
(* applied to the stored documents.                                        *)
(***************************************************************************)
Responses == {"accepted", "rejected"}

\* `Mentorship request ${response} successfully`
respondSuccess(response) ==
  IF response = "accepted" THEN "Mentorship request accepted successfully"
  ELSE "Mentorship request rejected successfully"

\* the load checks without the test of the request's status
respondLoadCheckNoStatus(mentor, requestId, response) ==
  IF response \notin Responses
  THEN ApiError(400, "Response must be 'accepted' or 'rejected'")
  ELSE IF requestId \notin DOMAIN mentor.incomingRequests
  THEN ApiError(404, "Request not found")
  ELSE ApiResponse(200, "loaded")

respondLoadCheck(mentor, requestId, response) ==
  IF response \notin Responses
  THEN ApiError(400, "Response must be 'accepted' or 'rejected'")
  ELSE IF requestId \notin DOMAIN mentor.incomingRequests
  THEN ApiError(404, "Request not found")
  ELSE IF mentor.incomingRequests[requestId].status # "pending"
  THEN ApiError(400, "Request has already been responded to")
  ELSE ApiResponse(200, "loaded")

respondToMentorshipRequestCheck(mentor, student, requestId, response) ==
  IF ~Passed(respondLoadCheck(mentor, requestId, response))
  THEN respondLoadCheck(mentor, requestId, response)
  ELSE IF ~student.exists THEN ApiError(404, "Student not found")
  ELSE IF response = "accepted" /\ ~canAcceptMoreMentees(mentor)
  THEN ApiError(400, "Mentor capacity reached. Cannot accept more mentees")
  ELSE ApiResponse(200, respondSuccess(response))

\* the requester of incoming request requestId, or the mentor itself when
\* there is no such request (the value is then unused)
requesterOf(mentor, mentorId, requestId) ==
  IF requestId \in DOMAIN mentor.incomingRequests
  THEN mentor.incomingRequests[requestId].student_id
  ELSE mentorId

respondSaveMentor(stored, mentorId, studentId, requestId, subjectId, response) ==
  LET menteeRelationship ==
        [mentee_id |-> studentId, subject_id |-> subjectId,
         connectedAt |-> now, isActive |-> TRUE, rating |-> NoRating]
  IN [stored EXCEPT ![mentorId] = preSave(
       [@ EXCEPT !.incomingRequests[requestId].status = response,
                 !.incomingRequests[requestId].respondedAt = now,
                 !.mentees = IF response = "accepted"
                             THEN Append(@, menteeRelationship) ELSE @])]

\* the student's save with the outgoing row looked up without the test of
\* its status
respondSaveStudentAnyStatus(stored, student, mentorId, studentId, subjectId, response) ==
  LET studentRequestIndex ==
        FindIndex(student.outgoingRequests,
                  LAMBDA r : /\ r.mentor_id = mentorId
                             /\ r.subject_id = subjectId)
      mentorRelationship ==
        [mentor_id |-> mentorId, subject_id |-> subjectId,
         connectedAt |-> now, isActive |-> TRUE, rating |-> NoRating]
  IN [stored EXCEPT ![studentId] = preSave(
       [@ EXCEPT !.outgoingRequests =
                    IF studentRequestIndex # 0
                    THEN [@ EXCEPT ![studentRequestIndex].status = response,
                                   ![studentRequestIndex].respondedAt = now]
                    ELSE @,
                 !.mentors = IF response = "accepted"
                             THEN Append(@, mentorRelationship) ELSE @])]

respondSaveStudent(stored, student, mentorId, studentId, subjectId, response) ==
  LET studentRequestIndex ==
        FindIndex(student.outgoingRequests,
                  LAMBDA r : /\ r.mentor_id = mentorId
                             /\ r.subject_id = subjectId
                             /\ r.status = "pending")
      mentorRelationship ==
        [mentor_id |-> mentorId, subject_id |-> subjectId,
         connectedAt |-> now, isActive |-> TRUE, rating |-> NoRating]
  IN [stored EXCEPT ![studentId] = preSave(
       [@ EXCEPT !.outgoingRequests =
                    IF studentRequestIndex # 0
                    THEN [@ EXCEPT ![studentRequestIndex].status = response,
                                   ![studentRequestIndex].respondedAt = now]
                    ELSE @,
                 !.mentors = IF response = "accepted"
                             THEN Append(@, mentorRelationship) ELSE @])]

\* the handler with the in-memory update of the request row saved before
\* the capacity check
respondToMentorshipRequestSaveFirst(u, requestId, response) ==
  LET gate == requireCompleteProfile(u)
      mentor == students[u]
      studentId == requesterOf(mentor, u, requestId)
      student == students[studentId]
      r == IF ~Passed(gate) THEN gate
           ELSE respondToMentorshipRequestCheck(mentor, student, requestId, response)
      subjectId == mentor.incomingRequests[requestId].subject_id
  IN /\ req' = [op |-> "respondToMentorshipRequest", user |-> u,
                requestId |-> requestId, response |-> response]
     /\ res' = r
     /\ IF Passed(r)
        THEN students' =
               respondSaveStudent(
                 respondSaveMentor(students, u, studentId, requestId, subjectId, response),
                 student, u, studentId, subjectId, response)
        ELSE IF r = ApiError(400, "Mentor capacity reached. Cannot accept more mentees")
        THEN students' = [students EXCEPT
                            ![u].incomingRequests[requestId].status = response,
                            ![u].incomingRequests[requestId].respondedAt = now]
        ELSE UNCHANGED students
     /\ sent' = IF Passed(r) THEN Emit(respondNotifications(studentId, u, response)) ELSE <<>>
     /\ UNCHANGED <<now, ops, inflight, emitter>>

respondToMentorshipRequest(u, requestId, response) ==
  LET gate == requireCompleteProfile(u)
      mentor == students[u]
      studentId == requesterOf(mentor, u, requestId)
      student == students[studentId]
      r == IF ~Passed(gate) THEN gate
           ELSE respondToMentorshipRequestCheck(mentor, student, requestId, response)
      subjectId == mentor.incomingRequests[requestId].subject_id
  IN /\ req' = [op |-> "respondToMentorshipRequest", user |-> u,
                requestId |-> requestId, response |-> response]
     /\ res' = r
     /\ IF Passed(r)
        THEN students' =
               respondSaveStudent(
                 respondSaveMentor(students, u, studentId, requestId, subjectId, response),
                 student, u, studentId, subjectId, response)
        ELSE UNCHANGED students
     /\ sent' = IF Passed(r) THEN Emit(respondNotifications(studentId, u, response)) ELSE <<>>
     /\ UNCHANGED <<now, ops, inflight, emitter>>

(***************************************************************************)
(* PUT /mentoring/relationship/end                                         *)
(***************************************************************************)
RelationshipTypes == {"mentor", "mentee"}

endRelationshipList(doc, relationshipType) ==
  IF relationshipType = "mentor" THEN doc.mentors ELSE doc.mentees

endOtherPartyId(rel, relationshipType) ==
  IF relationshipType = "mentor" THEN rel.mentor_id ELSE rel.mentee_id

\* index of the counterpart's record that the handler deactivates
endMirrorIndex(otherParty, studentId, subjectId, relationshipType) ==
  IF relationshipType = "mentor"
  THEN FindIndex(otherParty.mentees,
                 LAMBDA rel : rel.mentee_id = studentId /\ rel.subject_id = subjectId)
  ELSE FindIndex(otherParty.mentors,
                 LAMBDA rel : rel.mentor_id = studentId /\ rel.subject_id = subjectId)

endSaveOtherParty(stored, otherPartyId, studentId, subjectId, relationshipType) ==
  LET otherParty == stored[otherPartyId]
      idx == endMirrorIndex(otherParty, studentId, subjectId, relationshipType)
  IN IF ~otherParty.exists THEN stored
     ELSE [stored EXCEPT ![otherPartyId] = preSave(
            IF idx = 0 THEN @
            ELSE IF relationshipType = "mentor"
            THEN [@ EXCEPT !.mentees[idx].isActive = FALSE]
            ELSE [@ EXCEPT !.mentors[idx].isActive = FALSE])]

endSaveStudent(stored, studentId, relationshipId, relationshipType) ==
  [stored EXCEPT ![studentId] = preSave(
     IF relationshipType = "mentor"
     THEN [@ EXCEPT !.mentors[relationshipId].isActive = FALSE]
     ELSE [@ EXCEPT !.mentees[relationshipId].isActive = FALSE])]

endMentorshipRelationship(u, relationshipId, relationshipType) ==
  LET gate == requireCompleteProfile(u)
      student == students[u]
      list == endRelationshipList(student, relationshipType)
      r == IF ~Passed(gate) THEN gate
           ELSE IF relationshipType \notin RelationshipTypes
           THEN ApiError(400, "Relationship type must be 'mentor' or 'mentee'")
           ELSE IF relationshipId \notin DOMAIN list
           THEN ApiError(404, "Relationship not found")
           ELSE ApiResponse(200, "Mentorship relationship ended successfully")
      otherPartyId == endOtherPartyId(list[relationshipId], relationshipType)
      subjectId == list[relationshipId].subject_id
  IN /\ req' = [op |-> "endMentorshipRelationship", user |-> u,
                relationshipId |-> relationshipId,
                relationshipType |-> relationshipType]
     /\ res' = r
     /\ IF Passed(r)
        THEN students' =
               endSaveStudent(
                 endSaveOtherParty(students, otherPartyId, u, subjectId, relationshipType),
                 u, relationshipId, relationshipType)
        ELSE UNCHANGED students
     /\ sent' = <<>>
     /\ UNCHANGED <<now, ops, inflight, emitter>>

(***************************************************************************)
(* PUT /mentoring/preferences                                              *)
(* A body field is <<v>> when the body carries v and <<>> when it does not. *)
(***************************************************************************)
undefined == <<>>

Min(a, b) == IF a < b THEN a ELSE b
Max(a, b) == IF a > b THEN a ELSE b

validateMentorPreferences(maxMentees) ==
  IF maxMentees # undefined /\ (maxMentees[1] < 1 \/ maxMentees[1] > 20)
  THEN ApiError(400, "maxMentees must be an integer between 1 and 20")
  ELSE ApiResponse(200, "next")

updateMentorPreferences(u, isAvailableForMentoring, maxMentees) ==
  LET gate == requireCompleteProfile(u)
      r == IF ~Passed(gate) THEN gate
           ELSE IF ~Passed(validateMentorPreferences(maxMentees))
           THEN validateMentorPreferences(maxMentees)
           ELSE ApiResponse(200, "Mentor preferences updated successfully")
  IN /\ req' = [op |-> "updateMentorPreferences", user |-> u,
                isAvailableForMentoring |-> isAvailableForMentoring,
                maxMentees |-> maxMentees]
     /\ res' = r
     /\ IF Passed(r)
        THEN /\ ops.profile < MaxProfileOps
             /\ students' = [students EXCEPT ![u] = preSave(
                  [@ EXCEPT !.mentorPreferences.isAvailableForMentoring =
                               IF isAvailableForMentoring # undefined
                               THEN isAvailableForMentoring[1] ELSE @,
                            !.mentorPreferences.maxMentees =
                               IF maxMentees # undefined
                               THEN Max(1, Min(20, maxMentees[1])) ELSE @])]
             /\ ops' = [ops EXCEPT !.profile = @ + 1]
        ELSE UNCHANGED <<students, ops>>
     /\ sent' = <<>>
     /\ UNCHANGED <<now, inflight, emitter>>

(***************************************************************************)
(* DELETE /profile and the profile reset of a student account              *)
(***************************************************************************)
deleteStudentProfile(u) ==
  LET r == IF ~students[u].exists
           THEN ApiError(404, "Student profile not found")
           ELSE ApiResponse(200, "Student profile deleted successfully")
  IN /\ req' = [op |-> "deleteStudentProfile", user |-> u]
     /\ res' = r
     /\ IF Passed(r)
        THEN /\ ops.profile < MaxProfileOps
             /\ students' = [students EXCEPT ![u] = AbsentDoc]
             /\ ops' = [ops EXCEPT !.profile = @ + 1]
        ELSE UNCHANGED <<students, ops>>
     /\ sent' = <<>>
     /\ UNCHANGED <<now, inflight, emitter>>

(***************************************************************************)
(* PUT /profile                                                            *)
(* The body is written with $set and without validators or the save hook.  *)
(* A body is a record of optional fields; its mentorshipConnections field   *)
(* is itself a record of optional arrays.                                   *)
(***************************************************************************)
expectedSemesterRange(year) ==
  IF year \in 1 .. 4 THEN {2 * year - 1, 2 * year} ELSE {}

NoConnections ==
  [incomingRequests |-> undefined, outgoingRequests |-> undefined,
   mentors |-> undefined, mentees |-> undefined]

EmptyBody ==
  [branch |-> undefined, year |-> undefined, currentSemester |-> undefined,
   strongSubjects |-> undefined, mentorshipConnections |-> NoConnections]

\* the value a $set leaves at a path: the body's when it carries one
setField(old, field) == IF field # undefined THEN field[1] ELSE old

updateStudentProfileCheck(existingStudent, body) ==
  LET year == setField(existingStudent.year, body.year)
      semester == setField(existingStudent.currentSemester, body.currentSemester)
  IN IF ~existingStudent.exists
     THEN ApiError(404, "Student profile not found. Please create a profile first using the register endpoint.")
     ELSE IF /\ body.year # undefined \/ body.currentSemester # undefined
             /\ year # 0 /\ semester # 0
             /\ semester \notin expectedSemesterRange(year)
     THEN ApiError(400, "Semester is not valid for year")
     ELSE ApiResponse(200, "Student profile updated successfully")

findOneAndUpdateSet(doc, body) ==
  [doc EXCEPT
     !.branch = setField(@, body.branch),
     !.year = setField(@, body.year),
     !.currentSemester = setField(@, body.currentSemester),
     !.strongSubjects = setField(@, body.strongSubjects),
     !.incomingRequests = setField(@, body.mentorshipConnections.incomingRequests),
     !.outgoingRequests = setField(@, body.mentorshipConnections.outgoingRequests),
     !.mentors = setField(@, body.mentorshipConnections.mentors),
     !.mentees = setField(@, body.mentorshipConnections.mentees)]

updateStudentProfile(u, body) ==
  LET r == updateStudentProfileCheck(students[u], body)
  IN /\ req' = [op |-> "updateStudentProfile", user |-> u, body |-> body]
     /\ res' = r
     /\ IF Passed(r)
        THEN /\ ops.profile < MaxProfileOps
             /\ students' = [students EXCEPT ![u] = findOneAndUpdateSet(@, body)]
             /\ ops' = [ops EXCEPT !.profile = @ + 1]
        ELSE UNCHANGED <<students, ops>>
     /\ sent' = <<>>
     /\ UNCHANGED <<now, inflight, emitter>>

\* a request row as a client writes it in a body; status defaults to pending
BodyRequestRow(mentorId, subjectId) ==
  [mentor_id |-> mentorId, subject_id |-> subjectId, status |-> "pending",
   requestedAt |-> now, respondedAt |-> NULL]

ProfileBodies ==
  { [EmptyBody EXCEPT !.currentSemester = <<1>>],
    [EmptyBody EXCEPT !.mentorshipConnections.outgoingRequests =
       << <<BodyRequestRow("A", "X"), BodyRequestRow("A", "X")>> >>] }

(***************************************************************************)
(* Official mentors: POST /official-mentors/request, the mentor account's  *)
(* respond, both end operations and removeMentee.  Only the learner's      *)
(* document stores the request and the edge.                               *)
(***************************************************************************)
hasRequestedOfficialMentor(doc, mentorId) ==
  \E i \in DOMAIN doc.officialOutgoingRequests :
    /\ doc.officialOutgoingRequests[i].mentor_id = mentorId
    /\ doc.officialOutgoingRequests[i].status = "pending"

hasActiveOfficialMentor(doc, mentorId) ==
  \E i \in DOMAIN doc.officialActiveMentors :
    /\ doc.officialActiveMentors[i].mentor_id = mentorId
    /\ doc.officialActiveMentors[i].isActive

sendOfficialMentorRequest(u, mentorId) ==
  LET gate == requireCompleteProfile(u)
      student == students[u]
      r == IF ~Passed(gate) THEN gate
           ELSE IF mentorId \notin Mentors THEN ApiError(404, "Mentor not found")
           ELSE IF hasRequestedOfficialMentor(student, mentorId)
           THEN ApiError(400, "Request already sent to this mentor")
           ELSE IF hasActiveOfficialMentor(student, mentorId)
           THEN ApiError(400, "You already have this mentor as active official mentor")
           ELSE ApiResponse(201, "Request sent to official mentor successfully")
      newRequest == [mentor_id |-> mentorId, status |-> "pending",
                     requestedAt |-> now, respondedAt |-> NULL]
  IN /\ req' = [op |-> "sendOfficialMentorRequest", user |-> u, mentorId |-> mentorId]
     /\ res' = r
     /\ IF Passed(r)
        THEN /\ ops.official < MaxOfficialRequests
             /\ students' = [students EXCEPT ![u] = preSave(
                  [@ EXCEPT !.officialOutgoingRequests = Append(@, newRequest)])]
             /\ ops' = [ops EXCEPT !.official = @ + 1]
        ELSE UNCHANGED <<students, ops>>
     /\ sent' = IF Passed(r) THEN Emit(<<notifyOfficialMentorRequest(mentorId)>>) ELSE <<>>
     /\ UNCHANGED <<now, inflight, emitter>>

\* the mentor account m answers request requestId stored in learner studentId
respondToOfficialRequest(m, studentId, requestId, response) ==
  LET student == students[studentId]
      r == IF m \notin Mentors THEN ApiError(404, "Mentor profile not found")
           ELSE IF ~student.exists \/ requestId \notin DOMAIN student.officialOutgoingRequests
           THEN ApiError(404, "Request not found")
           ELSE IF student.officialOutgoingRequests[requestId].status # "pending"
           THEN ApiError(400, "Request has already been responded to")
           ELSE ApiResponse(200, respondSuccess(response))
      newConnection == [mentor_id |-> m, connectedAt |-> now, isActive |-> TRUE,
                        rating |-> NoRating]
  IN /\ req' = [op |-> "respondToOfficialRequest", user |-> m,
                studentId |-> studentId, requestId |-> requestId,
                response |-> response]
     /\ res' = r
     /\ IF Passed(r)
        THEN students' = [students EXCEPT ![studentId] = preSave(
               [@ EXCEPT !.officialOutgoingRequests[requestId].status = response,
                         !.officialOutgoingRequests[requestId].respondedAt = now,
                         !.officialActiveMentors =
                            IF response = "accepted"
                            THEN Append(@, newConnection) ELSE @])]
        ELSE UNCHANGED students
     /\ sent' = IF Passed(r) THEN Emit(respondOfficialNotifications(studentId, m, response)) ELSE <<>>
     /\ UNCHANGED <<now, ops, inflight, emitter>>

endOfficialMentorshipRelationship(u, relationshipId) ==
  LET gate == requireCompleteProfile(u)
      r == IF ~Passed(gate) THEN gate
           ELSE IF relationshipId \notin DOMAIN students[u].officialActiveMentors
           THEN ApiError(404, "Relationship not found")
           ELSE ApiResponse(200, "Official mentorship relationship ended successfully")
  IN /\ req' = [op |-> "endOfficialMentorshipRelationship", user |-> u,
                relationshipId |-> relationshipId]
     /\ res' = r
     /\ IF Passed(r)
        THEN students' = [students EXCEPT ![u] = preSave(
               [@ EXCEPT !.officialActiveMentors[relationshipId].isActive = FALSE])]
        ELSE UNCHANGED students
     /\ sent' = <<>>
     /\ UNCHANGED <<now, ops, inflight, emitter>>

mentorEndMentorshipRelationship(m, studentId) ==
  LET student == students[studentId]
      mentorshipIndex ==
        FindIndex(student.officialActiveMentors,
                  LAMBDA rel : rel.mentor_id = m /\ rel.isActive)
      r == IF ~student.exists THEN ApiError(404, "Student not found")
           ELSE IF mentorshipIndex = 0
           THEN ApiError(404, "Active mentorship relationship not found")
           ELSE ApiResponse(200, "Mentorship relationship ended successfully")
  IN /\ req' = [op |-> "mentorEndMentorshipRelationship", user |-> m,
                studentId |-> studentId]
     /\ res' = r
     /\ IF Passed(r)
        THEN students' = [students EXCEPT ![studentId] = preSave(
               [@ EXCEPT !.officialActiveMentors[mentorshipIndex].isActive = FALSE])]
        ELSE UNCHANGED students
     /\ sent' = <<>>
     /\ UNCHANGED <<now, ops, inflight, emitter>>

\* seq without its element at index i
Splice(seq, i) == SubSeq(seq, 1, i - 1) \o SubSeq(seq, i + 1, Len(seq))

removeMentee(m, studentId) ==
  LET student == students[studentId]
      mentorshipIndex ==
        FindIndex(student.officialActiveMentors, LAMBDA rel : rel.mentor_id = m)
      r == IF ~student.exists THEN ApiError(404, "Student not found")
           ELSE IF mentorshipIndex = 0
           THEN ApiError(404, "Mentorship relationship not found")
           ELSE ApiResponse(200, "Mentee removed from your list successfully")
  IN /\ req' = [op |-> "removeMentee", user |-> m, studentId |-> studentId]
     /\ res' = r
     /\ IF Passed(r)
        THEN students' = [students EXCEPT ![studentId] = preSave(
               [@ EXCEPT !.officialActiveMentors = Splice(@, mentorshipIndex)])]
        ELSE UNCHANGED students
     /\ sent' = IF Passed(r) THEN Emit(<<notifyMenteeRemoved(studentId)>>) ELSE <<>>
     /\ UNCHANGED <<now, ops, inflight, emitter>>

(***************************************************************************)
(* Ratings: POST /ratings/student-mentor, /student-mentee, /official-mentor *)
(* kind selects the ledger the handler searches.                            *)
(***************************************************************************)
RATING_MIN_DAYS == 7

RatingKinds == {"mentors", "mentees", "officialActiveMentors"}

ratingList(doc, kind) ==
  CASE kind = "mentors" -> doc.mentors
    [] kind = "mentees" -> doc.mentees
    [] kind = "officialActiveMentors" -> doc.officialActiveMentors

ratingCounterpart(rel, kind) ==
  IF kind = "mentees" THEN rel.mentee_id ELSE rel.mentor_id

\* String.prototype.trim on the feedback texts a caller sends
trim(feedback) ==
  CASE feedback = " good " -> "good"
    [] feedback = "" -> ""
    [] OTHER -> feedback

\* the relationship the handler rates: the first active one with the counterpart
rateFind(doc, kind, counterpartId) ==
  FindIndex(ratingList(doc, kind),
            LAMBDA rel : ratingCounterpart(rel, kind) = counterpartId /\ rel.isActive)

rateRequired(kind) ==
  IF kind = "mentees" THEN "Mentee ID and rating are required"
  ELSE "Mentor ID and rating are required"

rateNotFound(kind) ==
  IF kind = "officialActiveMentors"
  THEN "Active official mentorship relationship not found"
  ELSE "Active mentorship relationship not found"

rateAlreadyRated(kind) ==
  IF kind = "mentees" THEN "You have already rated this mentee"
  ELSE "You have already rated this mentor"

rateSuccess(kind) ==
  CASE kind = "mentors" -> "Mentor rated successfully"
    [] kind = "mentees" -> "Mentee rated successfully"
    [] kind = "officialActiveMentors" -> "Official mentor rated successfully"

\* the rate checks without the test of the stored score
rateCheckNoScore(student, kind, counterpartId, rating) ==
  LET idx == rateFind(student, kind, counterpartId)
  IN IF rating = 0 THEN ApiError(400, rateRequired(kind))
     ELSE IF rating < 1 \/ rating > 5
     THEN ApiError(400, "Rating must be an integer between 1 and 5")
     ELSE IF ~student.exists THEN ApiError(404, "Student profile not found")
     ELSE IF idx = 0 THEN ApiError(404, rateNotFound(kind))
     ELSE ApiResponse(200, rateSuccess(kind))

rateCheck(student, kind, counterpartId, rating) ==
  LET idx == rateFind(student, kind, counterpartId)
  IN IF rating = 0 THEN ApiError(400, rateRequired(kind))
     ELSE IF rating < 1 \/ rating > 5
     THEN ApiError(400, "Rating must be an integer between 1 and 5")
     ELSE IF ~student.exists THEN ApiError(404, "Student profile not found")
     ELSE IF idx = 0 THEN ApiError(404, rateNotFound(kind))
     ELSE IF ratingList(student, kind)[idx].rating.score # 0
     THEN ApiError(400, rateAlreadyRated(kind))
     ELSE ApiResponse(200, rateSuccess(kind))

rateSave(doc, kind, idx, newRating) ==
  preSave(CASE kind = "mentors" -> [doc EXCEPT !.mentors[idx].rating = newRating]
            [] kind = "mentees" -> [doc EXCEPT !.mentees[idx].rating = newRating]
            [] kind = "officialActiveMentors" ->
                 [doc EXCEPT !.officialActiveMentors[idx].rating = newRating])

\* after the save the handler reads the counterpart's profile for the
\* response; a counterpart that no longer exists makes it throw
rateCounterpartFound(kind, counterpartId) ==
  kind = "officialActiveMentors" \/ students[counterpartId].exists

\* the notification is sent outside any try block, so what the emitter
\* throws becomes the handler's answer
rateResponse(kind, counterpartId) ==
  IF ~rateCounterpartFound(kind, counterpartId)
  THEN ApiError(500, "Cannot read properties of null")
  ELSE IF emitter # "up" THEN ApiError(500, "Error creating notification")
  ELSE ApiResponse(200, rateSuccess(kind))

rate(u, kind, counterpartId, rating, feedback) ==
  LET student == students[u]
      r == rateCheck(student, kind, counterpartId, rating)
      idx == rateFind(student, kind, counterpartId)
      newRating == [score |-> rating, feedback |-> trim(feedback), ratedAt |-> now]
  IN /\ req' = [op |-> "rate", user |-> u, kind |-> kind,
                counterpartId |-> counterpartId, rating |-> rating,
                feedback |-> feedback]
     /\ IF Passed(r)
        THEN /\ ops.rate < MaxRatings
             /\ students' = [students EXCEPT ![u] = rateSave(@, kind, idx, newRating)]
             /\ ops' = [ops EXCEPT !.rate = @ + 1]
             /\ res' = rateResponse(kind, counterpartId)
        ELSE /\ res' = r
             /\ UNCHANGED <<students, ops>>
     /\ sent' = IF Passed(r) /\ rateCounterpartFound(kind, counterpartId)
                THEN Emit(<<notifyRatingReceived(counterpartId)>>) ELSE <<>>
     /\ UNCHANGED <<now, inflight, emitter>>

RatingBodies ==
  {[rating |-> 0, feedback |-> ""], [rating |-> 6, feedback |-> ""],
   [rating |-> 3, feedback |-> " good "], [rating |-> 4, feedback |-> ""]}

\* the passage of time, in days; the steps reach the ages just below and at
\* the rating threshold
TickDays == {RATING_MIN_DAYS - 1, RATING_MIN_DAYS}

Tick(d) ==
  /\ now + d <= MaxNow
  /\ now' = now + d
  /\ req' = [op |-> "none"]
  /\ res' = ApiResponse(200, "none")
  /\ sent' = <<>>
  /\ UNCHANGED <<students, ops, inflight, emitter>>

\* request ids and relationship ids a caller may name: every position of the
\* array and one id that no sub-document of it has
IdsOf(seq) == 1 .. (Len(seq) + 1)

PreferenceBodies ==
  {[isAvailableForMentoring |-> <<b>>, maxMentees |-> undefined] : b \in BOOLEAN}
  \cup {[isAvailableForMentoring |-> undefined, maxMentees |-> <<k>>] :
          k \in {0} \cup MaxMenteesChoices}

Next ==
  \/ \E u \in Students, m \in Students, s \in Subjects :
       sendMentorshipRequest(u, m, s)
  \/ \E u \in Students, response \in Responses :
       \E id \in IdsOf(students[u].incomingRequests) :
         respondToMentorshipRequest(u, id, response)
  \/ \E u \in Students, t \in RelationshipTypes :
       \E id \in IdsOf(endRelationshipList(students[u], t)) :
         endMentorshipRelationship(u, id, t)
  \/ \E u \in Students, body \in PreferenceBodies :
       updateMentorPreferences(u, body.isAvailableForMentoring, body.maxMentees)
  \/ \E u \in Students, body \in ProfileBodies : updateStudentProfile(u, body)
  \/ \E u \in Students : deleteStudentProfile(u)

Spec == Init /\ [][Next]_vars

(***************************************************************************)
(* The ledgers of one learner, B, with peer mentor A and official mentor M, *)
(* and the ratings given on them.  A rate handler reads and writes the      *)
(* rater's document only.                                                   *)
(***************************************************************************)
RatingUsers == {"A", "B"}
RatingLearners == {"B"}
RatingMentors == {"A"}

NextLedger(kinds) ==
  \/ \E u \in RatingLearners, m \in RatingMentors, s \in Subjects :
       sendMentorshipRequest(u, m, s)
  \/ \E u \in RatingUsers, response \in Responses :
       \E id \in IdsOf(students[u].incomingRequests) :
         respondToMentorshipRequest(u, id, response)
  \/ \E u \in RatingUsers, t \in RelationshipTypes :
       \E id \in IdsOf(endRelationshipList(students[u], t)) :
         endMentorshipRelationship(u, id, t)
  \/ \E u \in RatingUsers, kind \in kinds, body \in RatingBodies :
       \E c \in IF kind = "officialActiveMentors" THEN OfficialTargets ELSE RatingUsers :
         rate(u, kind, c, body.rating, body.feedback)

NextOfficial ==
  \/ \E u \in RatingLearners, m \in OfficialTargets : sendOfficialMentorRequest(u, m)
  \/ \E m \in OfficialTargets, u \in RatingLearners, response \in Responses :
       \E id \in IdsOf(students[u].officialOutgoingRequests) :
         respondToOfficialRequest(m, u, id, response)
  \/ \E u \in RatingLearners :
       \E id \in IdsOf(students[u].officialActiveMentors) :
         endOfficialMentorshipRelationship(u, id)
  \/ \E m \in OfficialTargets, u \in RatingLearners : mentorEndMentorshipRelationship(m, u)
  \/ \E m \in OfficialTargets, u \in RatingLearners : removeMentee(m, u)

SpecOfficial == Init /\ [][NextOfficial]_vars

\* edges of the three kinds are made, rated, ended by the learner or removed
\* by the mentor, and made again
NextRating ==
  \/ \E u \in RatingLearners, m \in RatingMentors :
       sendMentorshipRequest(u, m, "X")
  \/ \E u \in RatingMentors :
       \E id \in IdsOf(students[u].incomingRequests) :
         respondToMentorshipRequest(u, id, "accepted")
  \/ \E u \in RatingLearners :
       \E id \in IdsOf(students[u].mentors) :
         endMentorshipRelationship(u, id, "mentor")
  \/ \E u \in RatingLearners, m \in OfficialTargets : sendOfficialMentorRequest(u, m)
  \/ \E m \in OfficialTargets, u \in RatingLearners :
       \E id \in IdsOf(students[u].officialOutgoingRequests) :
         respondToOfficialRequest(m, u, id, "accepted")
  \/ \E u \in RatingLearners :
       \E id \in IdsOf(students[u].officialActiveMentors) :
         endOfficialMentorshipRelationship(u, id)
  \/ \E m \in OfficialTargets, u \in RatingLearners : removeMentee(m, u)
  \/ \E u \in RatingUsers, kind \in RatingKinds, body \in RatingBodies :
       \E c \in IF kind = "officialActiveMentors" THEN Mentors
                ELSE RatingUsers \ {u} :
         rate(u, kind, c, body.rating, body.feedback)

SpecRating == Init /\ [][NextRating]_vars

(***************************************************************************)
(* The peer ledger of the same pair with the clock running.                *)
(***************************************************************************)
NextClock ==
  \/ NextLedger({"mentors", "mentees"})
  \/ \E d \in TickDays : Tick(d)

SpecClock == Init /\ [][NextClock]_vars

(***************************************************************************)
(* One mentor, B, whose capacity changes, and the two learners A and C who  *)
(* request B, while a week passes and learners delete their profiles.      *)
(***************************************************************************)
AcceptMentors == {"B"}
AcceptLearners == {"A", "C"}

NextAccept ==
  \/ \E u \in AcceptLearners, m \in AcceptMentors, s \in Subjects :
       sendMentorshipRequest(u, m, s)
  \/ \E u \in AcceptMentors, response \in Responses :
       \E id \in IdsOf(students[u].incomingRequests) :
         respondToMentorshipRequest(u, id, response)
  \/ \E u \in AcceptMentors, body \in PreferenceBodies :
       updateMentorPreferences(u, body.isAvailableForMentoring, body.maxMentees)
  \/ \E u \in AcceptLearners : deleteStudentProfile(u)
  \/ Tick(RATING_MIN_DAYS)

SpecAccept == Init /\ [][NextAccept]_vars

(***************************************************************************)
(* Interleaved respond handlers.  A handler awaits its two loads, then     *)
(* checks and mutates its in-memory copies and issues both saves; another  *)
(* handler may run between the loads and the saves.  A save writes the     *)
(* handler's changes (a $set at the request's position, a $push of the     *)
(* edge) onto whatever the collection then holds.                          *)
(***************************************************************************)
respondLoad(u, requestId, response) ==
  LET gate == requireCompleteProfile(u)
      mentor == students[u]
      studentId == requesterOf(mentor, u, requestId)
      student == students[studentId]
      r == IF ~Passed(gate) THEN gate
           ELSE IF ~Passed(respondLoadCheck(mentor, requestId, response))
           THEN respondLoadCheck(mentor, requestId, response)
           ELSE IF ~student.exists THEN ApiError(404, "Student not found")
           ELSE ApiResponse(200, "loaded")
  IN /\ req' = [op |-> "respondLoad", user |-> u,
                requestId |-> requestId, response |-> response]
     /\ res' = r
     /\ IF Passed(r)
        THEN /\ Cardinality(inflight) < MaxInflight
             /\ inflight' = inflight \cup
                  {[user |-> u, requestId |-> requestId, response |-> response,
                    studentId |-> studentId, mentor |-> mentor, student |-> student]}
        ELSE UNCHANGED inflight
     /\ sent' = <<>>
     /\ UNCHANGED <<students, now, ops, emitter>>

respondCommit(h) ==
  LET r == respondToMentorshipRequestCheck(h.mentor, h.student, h.requestId, h.response)
      subjectId == h.mentor.incomingRequests[h.requestId].subject_id
  IN /\ h \in inflight
     /\ req' = [op |-> "respondToMentorshipRequest", user |-> h.user,
                requestId |-> h.requestId, response |-> h.response]
     /\ res' = r
     /\ IF Passed(r)
        THEN students' =
               respondSaveStudent(
                 respondSaveMentor(students, h.user, h.studentId, h.requestId,
                                   subjectId, h.response),
                 h.student, h.user, h.studentId, subjectId, h.response)
        ELSE UNCHANGED students
     /\ inflight' = inflight \ {h}
     /\ sent' = IF Passed(r) THEN Emit(respondNotifications(h.studentId, h.user, h.response)) ELSE <<>>
     /\ UNCHANGED <<now, ops, emitter>>

RaceMentors == {"A"}
RaceLearners == {"B", "C"}

NextRace ==
  \/ \E u \in RaceLearners, m \in RaceMentors, s \in Subjects :
       sendMentorshipRequest(u, m, s)
  \/ \E u \in RaceMentors, response \in Responses :
       \E id \in IdsOf(students[u].incomingRequests) :
         respondLoad(u, id, response)
  \/ \E h \in inflight : respondCommit(h)

SpecRace == Init /\ [][NextRace]_vars

(***************************************************************************)
(* A fourth-year learner, A, among third-year B and first-year C: peer and  *)
(* official requests and the responses to the peer ones.                    *)
(***************************************************************************)
InitFourthYear ==
  /\ students = [s \in Students |->
       CASE s = "A" -> SeedDoc("Computer", 4, 7, {"X"}, TRUE, 1)
         [] s = "B" -> SeedDoc("Computer", 3, 5, {"X"}, TRUE, 2)
         [] s = "C" -> SeedDoc("Computer", 1, 2, {"X"}, FALSE, 1)]
  /\ now = 0
  /\ ops = [send |-> 0, profile |-> 0, official |-> 0, rate |-> 0, fault |-> 0]
  /\ req = [op |-> "none"]
  /\ res = ApiResponse(200, "none")
  /\ inflight = {}
  /\ emitter = "up"
  /\ sent = <<>>

NextFourthYear ==
  \/ \E u \in Students, m \in Students, s \in Subjects :
       sendMentorshipRequest(u, m, s)
  \/ \E u \in Students, response \in Responses :
       \E id \in IdsOf(students[u].incomingRequests) :
         respondToMentorshipRequest(u, id, response)
  \/ \E u \in Students, m \in OfficialTargets : sendOfficialMentorRequest(u, m)

SpecFourthYear == InitFourthYear /\ [][NextFourthYear]_vars

(***************************************************************************)
(* Requests by the learners A and C to the profiles A and B, while B        *)
(* changes its preferences, requesters change branch or semester, and      *)
(* profiles are deleted.                                                   *)
(***************************************************************************)
RequestBodies ==
  { [EmptyBody EXCEPT !.currentSemester = <<1>>],
    [EmptyBody EXCEPT !.branch = <<"Civil">>] }

RequestTargets == {"A", "B"}

NextRequest ==
  \/ \E u \in AcceptLearners, m \in RequestTargets, s \in Subjects :
       sendMentorshipRequest(u, m, s)
  \/ \E u \in RequestTargets, response \in Responses :
       \E id \in IdsOf(students[u].incomingRequests) :
         respondToMentorshipRequest(u, id, response)
  \/ \E u \in AcceptMentors, body \in PreferenceBodies :
       updateMentorPreferences(u, body.isAvailableForMentoring, body.maxMentees)
  \/ \E u \in AcceptLearners, body \in RequestBodies : updateStudentProfile(u, body)
  \/ \E u \in RequestTargets : deleteStudentProfile(u)

SpecRequest == Init /\ [][NextRequest]_vars

(***************************************************************************)
(* Requests are sent and answered; nothing else happens.                   *)
(***************************************************************************)
NextSendRespond ==
  \/ \E u \in Students, m \in Students, s \in Subjects :
       sendMentorshipRequest(u, m, s)
  \/ \E u \in Students, response \in Responses :
       \E id \in IdsOf(students[u].incomingRequests) :
         respondToMentorshipRequest(u, id, response)

SpecSendRespond == Init /\ [][NextSendRespond]_vars

(***************************************************************************)
(* Peer and official requests are sent and answered, edges are ended, and   *)
(* a learner writes back its own mentor edges through PUT /profile.        *)
(***************************************************************************)
\* the body of a client that read its profile and sends the mentor edges
\* back with isActive set
ReactivateBody(doc) ==
  [EmptyBody EXCEPT !.mentorshipConnections.mentors =
     << [i \in DOMAIN doc.mentors |-> [doc.mentors[i] EXCEPT !.isActive = TRUE]] >>]

NextTerminal ==
  \/ \E u \in RatingLearners, m \in RatingMentors, s \in Subjects :
       sendMentorshipRequest(u, m, s)
  \/ \E u \in RatingUsers, response \in Responses :
       \E id \in IdsOf(students[u].incomingRequests) :
         respondToMentorshipRequest(u, id, response)
  \/ \E u \in RatingUsers, t \in RelationshipTypes :
       \E id \in IdsOf(endRelationshipList(students[u], t)) :
         endMentorshipRelationship(u, id, t)
  \/ \E u \in RatingLearners : updateStudentProfile(u, ReactivateBody(students[u]))
  \/ \E u \in RatingLearners, m \in OfficialTargets : sendOfficialMentorRequest(u, m)
  \/ \E m \in OfficialTargets, u \in RatingLearners, response \in Responses :
       \E id \in IdsOf(students[u].officialOutgoingRequests) :
         respondToOfficialRequest(m, u, id, response)
  \/ \E u \in RatingLearners :
       \E id \in IdsOf(students[u].officialActiveMentors) :
         endOfficialMentorshipRelationship(u, id)
  \/ \E m \in OfficialTargets, u \in RatingLearners : mentorEndMentorshipRelationship(m, u)

SpecTerminal == Init /\ [][NextTerminal]_vars

(***************************************************************************)
(* Two learners ask the same mentor, whose capacity is one; requests are   *)
(* answered, edges ended and rated, with valid and invalid arguments.      *)
(***************************************************************************)
FailureBodies == {[rating |-> 0, feedback |-> ""], [rating |-> 6, feedback |-> ""],
                  [rating |-> 4, feedback |-> ""]}

NextFailure ==
  \/ \E u \in RaceLearners, m \in RaceMentors, s \in Subjects :
       sendMentorshipRequest(u, m, s)
  \/ \E u \in RaceMentors, response \in Responses :
       \E id \in IdsOf(students[u].incomingRequests) :
         respondToMentorshipRequest(u, id, response)
  \/ \E u \in Students, t \in RelationshipTypes :
       \E id \in IdsOf(endRelationshipList(students[u], t)) :
         endMentorshipRelationship(u, id, t)
  \/ \E u \in RatingUsers, kind \in {"mentors", "mentees"}, body \in FailureBodies :
       \E c \in RatingUsers \ {u} : rate(u, kind, c, body.rating, body.feedback)

SpecFailure == Init /\ [][NextFailure]_vars

(***************************************************************************)
(* The rating scenario while the notification store goes down and comes    *)
(* back.                                                                   *)
(***************************************************************************)
EmitterStates == {"up", "down"}

NextEmitter ==
  \/ NextRating
  \/ \E e \in EmitterStates : setEmitter(e)

SpecEmitter == Init /\ [][NextEmitter]_vars

(***************************************************************************)
(* Runs of the respond and end handlers in which the store rejects the     *)
(* save of the documents in failed.  What a save throws reaches the global *)
(* error handler, which answers with the error's status or 500 and its     *)
(* message.                                                                *)
(***************************************************************************)
StoreError == [message |-> "write failed"]

errorHandler(err) ==
  ApiError(IF "statusCode" \in DOMAIN err THEN err.statusCode ELSE 500, err.message)

\* Promise.all([mentor.save(), student.save()]): both saves are started, the
\* one that is not rejected commits
respondToMentorshipRequestFault(u, requestId, response, failed) ==
  LET gate == requireCompleteProfile(u)
      mentor == students[u]
      studentId == requesterOf(mentor, u, requestId)
      student == students[studentId]
      r == IF ~Passed(gate) THEN gate
           ELSE respondToMentorshipRequestCheck(mentor, student, requestId, response)
      subjectId == mentor.incomingRequests[requestId].subject_id
      afterMentor ==
        IF u \in failed THEN students
        ELSE respondSaveMentor(students, u, studentId, requestId, subjectId, response)
      afterStudent ==
        IF studentId \in failed THEN afterMentor
        ELSE respondSaveStudent(afterMentor, student, u, studentId, subjectId, response)
  IN /\ Passed(r)
     /\ failed # {} /\ failed \subseteq {u, studentId}
     /\ req' = [op |-> "respondToMentorshipRequest", user |-> u,
                requestId |-> requestId, response |-> response]
     /\ res' = errorHandler(StoreError)
     /\ ops.fault < MaxFaults
     /\ ops' = [ops EXCEPT !.fault = @ + 1]
     /\ students' = afterStudent
     /\ sent' = <<>>
     /\ UNCHANGED <<now, inflight, emitter>>

\* await otherParty.save() and then await student.save(): a rejected first
\* save ends the handler before the second one
endMentorshipRelationshipFault(u, relationshipId, relationshipType, failed) ==
  LET gate == requireCompleteProfile(u)
      student == students[u]
      list == endRelationshipList(student, relationshipType)
      r == IF ~Passed(gate) THEN gate
           ELSE IF relationshipId \notin DOMAIN list
           THEN ApiError(404, "Relationship not found")
           ELSE ApiResponse(200, "Mentorship relationship ended successfully")
      otherPartyId == endOtherPartyId(list[relationshipId], relationshipType)
      subjectId == list[relationshipId].subject_id
      afterOtherParty ==
        endSaveOtherParty(students, otherPartyId, u, subjectId, relationshipType)
  IN /\ Passed(r)
     /\ failed # {} /\ failed \subseteq {u, otherPartyId}
     /\ students[otherPartyId].exists
     /\ req' = [op |-> "endMentorshipRelationship", user |-> u,
                relationshipId |-> relationshipId,
                relationshipType |-> relationshipType]
     /\ res' = errorHandler(StoreError)
     /\ ops.fault < MaxFaults
     /\ ops' = [ops EXCEPT !.fault = @ + 1]
     /\ students' = IF otherPartyId \in failed THEN students ELSE afterOtherParty
     /\ sent' = <<>>
     /\ UNCHANGED <<now, inflight, emitter>>

NextFault ==
  \/ \E u \in RatingLearners, m \in RatingMentors, s \in Subjects :
       sendMentorshipRequest(u, m, s)
  \/ \E u \in RatingUsers, response \in Responses :
       \E id \in IdsOf(students[u].incomingRequests) :
         respondToMentorshipRequest(u, id, response)
  \/ \E u \in RatingUsers, t \in RelationshipTypes :
       \E id \in IdsOf(endRelationshipList(students[u], t)) :
         endMentorshipRelationship(u, id, t)
  \/ \E u \in RatingUsers, response \in Responses, failed \in SUBSET RatingUsers :
       \E id \in IdsOf(students[u].incomingRequests) :
         respondToMentorshipRequestFault(u, id, response, failed)
  \/ \E u \in RatingUsers, t \in RelationshipTypes, failed \in SUBSET RatingUsers :
       \E id \in IdsOf(endRelationshipList(students[u], t)) :
         endMentorshipRelationshipFault(u, id, t, failed)

SpecFault == Init /\ [][NextFault]_vars

(***************************************************************************)
(* Official requests addressed to one mentor while every mentor account    *)
(* may call the mentor routes.                                             *)
(***************************************************************************)
NextAddressee ==
  \/ \E u \in RatingUsers, m \in OfficialTargets : sendOfficialMentorRequest(u, m)
  \/ \E m \in Mentors, u \in RatingUsers, response \in Responses :
       \E id \in IdsOf(students[u].officialOutgoingRequests) :
         respondToOfficialRequest(m, u, id, response)
  \/ \E u \in RatingUsers :
       \E id \in IdsOf(students[u].officialActiveMentors) :
         endOfficialMentorshipRelationship(u, id)
  \/ \E m \in Mentors, u \in RatingUsers : mentorEndMentorshipRelationship(m, u)
  \/ \E m \in Mentors, u \in RatingUsers : removeMentee(m, u)

SpecAddressee == Init /\ [][NextAddressee]_vars

(***************************************************************************)
(* Official mentoring of learners A and B by mentor M, starting after B's  *)
(* first request to M was accepted and the edge it made was ended.         *)
(***************************************************************************)
InitRemoval ==
  /\ students = [s \in Students |->
       CASE s = "A" -> SeedDoc("Computer", 3, 5, {"X"}, TRUE, 1)
         [] s = "B" ->
              [SeedDoc("Computer", 2, 3, {"X"}, TRUE, 2) EXCEPT
                 !.officialOutgoingRequests =
                    <<[mentor_id |-> "M", status |-> "accepted",
                       requestedAt |-> 0, respondedAt |-> 0]>>,
                 !.officialActiveMentors =
                    <<[mentor_id |-> "M", connectedAt |-> 0, isActive |-> FALSE,
                       rating |-> NoRating]>>]
         [] s = "C" -> SeedDoc("Computer", 1, 2, {"X"}, FALSE, 1)]
  /\ now = 0
  /\ ops = [send |-> 0, profile |-> 0, official |-> 0, rate |-> 0, fault |-> 0]
  /\ req = [op |-> "none"]
  /\ res = ApiResponse(200, "none")
  /\ inflight = {}
  /\ emitter = "up"
  /\ sent = <<>>

NextRemoval ==
  \/ \E u \in RatingUsers, m \in OfficialTargets : sendOfficialMentorRequest(u, m)
  \/ \E m \in OfficialTargets, u \in RatingUsers, response \in Responses :
       \E id \in IdsOf(students[u].officialOutgoingRequests) :
         respondToOfficialRequest(m, u, id, response)
  \/ \E u \in RatingUsers :
       \E id \in IdsOf(students[u].officialActiveMentors) :
         endOfficialMentorshipRelationship(u, id)
  \/ \E m \in OfficialTargets, u \in RatingUsers : mentorEndMentorshipRelationship(m, u)
  \/ \E m \in OfficialTargets, u \in RatingUsers : removeMentee(m, u)
  \/ \E u \in RatingUsers, body \in FailureBodies :
       \E m \in OfficialTargets :
         rate(u, "officialActiveMentors", m, body.rating, body.feedback)

SpecRemoval == InitRemoval /\ [][NextRemoval]_vars

(***************************************************************************)
(* Peer and official edges are made and ended by each of the four ending   *)
(* operations, any number of times.                                        *)
(***************************************************************************)
NextEnd ==
  \/ \E u \in RatingLearners, m \in RatingMentors :
       sendMentorshipRequest(u, m, "X")
  \/ \E u \in RatingMentors :
       \E id \in IdsOf(students[u].incomingRequests) :
         respondToMentorshipRequest(u, id, "accepted")
  \/ \E u \in RatingUsers, t \in RelationshipTypes :
       \E id \in IdsOf(endRelationshipList(students[u], t)) :
         endMentorshipRelationship(u, id, t)
  \/ \E u \in RatingLearners, m \in OfficialTargets : sendOfficialMentorRequest(u, m)
  \/ \E m \in OfficialTargets, u \in RatingLearners :
       \E id \in IdsOf(students[u].officialOutgoingRequests) :
         respondToOfficialRequest(m, u, id, "accepted")
  \/ \E u \in RatingLearners :
       \E id \in IdsOf(students[u].officialActiveMentors) :
         endOfficialMentorshipRelationship(u, id)
  \/ \E m \in OfficialTargets, u \in RatingUsers : mentorEndMentorshipRelationship(m, u)
  \/ \E m \in OfficialTargets, u \in RatingUsers : removeMentee(m, u)

SpecEnd == Init /\ [][NextEnd]_vars

(***************************************************************************)
(* POST /register and POST /mentoring/strong-subjects.                     *)
(* A registration body is a record of optional fields.                     *)
(***************************************************************************)
Branches == {"Computer", "IT", "AIML", "ECS"}

\* value || fallback, for a text and for a number
orText(field, fallback) ==
  IF field = undefined THEN fallback
  ELSE IF field[1] = "" THEN fallback ELSE field[1]

orNumber(field, fallback) ==
  IF field = undefined THEN fallback
  ELSE IF field[1] = 0 THEN fallback ELSE field[1]

\* the schema's validators, run by Student.create
studentValidation(doc) ==
  /\ doc.name # "" /\ doc.phone # ""
  /\ doc.branch \in Branches
  /\ doc.year \in 1 .. 4
  /\ doc.currentSemester \in 1 .. 8

registerStudent(u, body) ==
  LET studentData ==
        [AbsentDoc EXCEPT !.exists = TRUE,
                          !.name = orText(body.name, ""),
                          !.phone = orText(body.phone, ""),
                          !.branch = orText(body.branch, ""),
                          !.year = orNumber(body.year, 1),
                          !.currentSemester = orNumber(body.currentSemester, 1),
                          !.strongSubjects = setField({}, body.strongSubjects)]
      r == IF students[u].exists
           THEN ApiError(400, "Student profile already exists. Use update endpoint instead.")
           ELSE IF /\ orText(body.branch, "") # ""
                   /\ orNumber(body.currentSemester, 0) # 0
                   /\ orNumber(body.year, 0) # 0
                   /\ body.currentSemester[1] \notin expectedSemesterRange(body.year[1])
           THEN ApiError(400, "Semester is not valid for year")
           ELSE IF ~studentValidation(studentData)
           THEN ApiError(500, "Student validation failed")
           ELSE ApiResponse(201, "Student profile created successfully")
  IN /\ req' = [op |-> "registerStudent", user |-> u, body |-> body]
     /\ res' = r
     /\ students' = IF Passed(r) THEN [students EXCEPT ![u] = preSave(studentData)]
                    ELSE students
     /\ sent' = <<>>
     /\ UNCHANGED <<now, ops, inflight, emitter>>

\* semester in which the catalogue teaches each subject, in every branch
SubjectSemester == [s \in Subjects |-> IF s = "X" THEN 1 ELSE 4]

getAvailablePreviousSemesters(doc) == 1 .. (doc.currentSemester - 1)

addStrongSubjects(u, strongSubjects) ==
  LET student == students[u]
      r == IF ~Passed(requireCompleteProfile(u)) THEN requireCompleteProfile(u)
           ELSE IF ~Passed(canAccessMentoring(u)) THEN canAccessMentoring(u)
           ELSE IF strongSubjects = {}
           THEN ApiError(400, "Strong subjects array is required")
           ELSE IF getAvailablePreviousSemesters(student) = {}
           THEN ApiError(400, "No previous semesters available for mentoring")
           ELSE IF \E sub \in strongSubjects :
                     SubjectSemester[sub] \notin getAvailablePreviousSemesters(student)
           THEN ApiError(400, "Some subjects are invalid or not from previous semesters")
           ELSE ApiResponse(200, "Strong subjects updated successfully")
  IN /\ req' = [op |-> "addStrongSubjects", user |-> u,
                strongSubjects |-> strongSubjects]
     /\ res' = r
     /\ students' = IF Passed(r)
                    THEN [students EXCEPT ![u] =
                            preSave([@ EXCEPT !.strongSubjects = strongSubjects])]
                    ELSE students
     /\ sent' = <<>>
     /\ UNCHANGED <<now, ops, inflight, emitter>>

NoRegistration ==
  [name |-> undefined, phone |-> undefined, branch |-> undefined,
   year |-> undefined, currentSemester |-> undefined, strongSubjects |-> undefined]

RegisterBodies ==
  { [NoRegistration EXCEPT !.name = <<"n">>, !.phone = <<"p">>,
                           !.branch = <<"Computer">>, !.year = <<2>>,
                           !.currentSemester = <<3>>, !.strongSubjects = <<{"X"}>>],
    [NoRegistration EXCEPT !.name = <<"n">>, !.phone = <<"p">>,
                           !.branch = <<"Computer">>, !.year = <<3>>,
                           !.currentSemester = <<5>>],
    [NoRegistration EXCEPT !.name = <<"n">>, !.phone = <<"p">>,
                           !.branch = <<"Computer">>, !.currentSemester = <<5>>,
                           !.strongSubjects = <<{"X"}>>],
    [NoRegistration EXCEPT !.name = <<"n">>, !.phone = <<"p">>,
                           !.branch = <<"Computer">>, !.year = <<1>>,
                           !.currentSemester = <<8>>],
    [NoRegistration EXCEPT !.phone = <<"p">>, !.branch = <<"Computer">>] }

\* bodies of PUT /profile that touch the descriptive fields
DescriptiveBodies ==
  { [EmptyBody EXCEPT !.strongSubjects = <<{}>>],
    [EmptyBody EXCEPT !.strongSubjects = <<{"X"}>>],
    [EmptyBody EXCEPT !.year = <<2>>],
    [EmptyBody EXCEPT !.year = <<3>>, !.currentSemester = <<6>>] }

\* the collection before anybody has registered
InitProfile ==
  /\ students = [s \in Students |-> AbsentDoc]
  /\ now = 0
  /\ ops = [send |-> 0, profile |-> 0, official |-> 0, rate |-> 0, fault |-> 0]
  /\ req = [op |-> "none"]
  /\ res = ApiResponse(200, "none")
  /\ inflight = {}
  /\ emitter = "up"
  /\ sent = <<>>

NextProfile ==
  \/ \E u \in RatingUsers, body \in RegisterBodies : registerStudent(u, body)
  \/ \E u \in RatingUsers, body \in DescriptiveBodies : updateStudentProfile(u, body)
  \/ \E u \in RatingUsers, strong \in SUBSET Subjects : addStrongSubjects(u, strong)
  \/ \E u \in RatingUsers : deleteStudentProfile(u)

SpecProfile == InitProfile /\ [][NextProfile]_vars

(***************************************************************************)
(* Official requests of learners A and B to either mentor, starting after  *)
(* A has sent a request to mentor N.                                       *)
(***************************************************************************)
InitPending ==
  /\ students = [s \in Students |->
       CASE s = "A" ->
              [SeedDoc("Computer", 3, 5, {"X"}, TRUE, 1) EXCEPT
                 !.officialOutgoingRequests =
                    <<[mentor_id |-> "N", status |-> "pending",
                       requestedAt |-> 0, respondedAt |-> NULL]>>]
         [] s = "B" -> SeedDoc("Computer", 2, 3, {"X"}, TRUE, 2)
         [] s = "C" -> SeedDoc("Computer", 1, 2, {"X"}, FALSE, 1)]
  /\ now = 0
  /\ ops = [send |-> 0, profile |-> 0, official |-> 0, rate |-> 0, fault |-> 0]
  /\ req = [op |-> "none"]
  /\ res = ApiResponse(200, "none")
  /\ inflight = {}
  /\ emitter = "up"
  /\ sent = <<>>

NextDuplicate ==
  \/ \E u \in RatingUsers, m \in Mentors : sendOfficialMentorRequest(u, m)
  \/ \E m \in Mentors, u \in RatingUsers, response \in Responses :
       \E id \in IdsOf(students[u].officialOutgoingRequests) :
         respondToOfficialRequest(m, u, id, response)
  \/ \E u \in RatingUsers :
       \E id \in IdsOf(students[u].officialActiveMentors) :
         endOfficialMentorshipRelationship(u, id)
  \/ \E m \in Mentors, u \in RatingUsers : mentorEndMentorshipRelationship(m, u)

SpecDuplicate == InitPending /\ [][NextDuplicate]_vars

(***************************************************************************)
(* Learner B and mentor A, who is strong in both subjects and takes two    *)
(* mentees: requests, acceptances, endings and ratings.                    *)
(***************************************************************************)
InitTwoSubjects ==
  /\ students = [s \in Students |->
       CASE s = "A" -> SeedDoc("Computer", 3, 5, {"X", "Y"}, TRUE, 2)
         [] s = "B" -> SeedDoc("Computer", 2, 3, {"X"}, TRUE, 2)
         [] s = "C" -> SeedDoc("Computer", 1, 2, {"X"}, FALSE, 1)]
  /\ now = 0
  /\ ops = [send |-> 0, profile |-> 0, official |-> 0, rate |-> 0, fault |-> 0]
  /\ req = [op |-> "none"]
  /\ res = ApiResponse(200, "none")
  /\ inflight = {}
  /\ emitter = "up"
  /\ sent = <<>>

NextTwoSubjects ==
  \/ \E u \in RatingLearners, m \in RatingMentors, s \in Subjects :
       sendMentorshipRequest(u, m, s)
  \/ \E u \in RatingMentors, response \in Responses :
       \E id \in IdsOf(students[u].incomingRequests) :
         respondToMentorshipRequest(u, id, response)
  \/ \E u \in RatingLearners :
       \E id \in IdsOf(students[u].mentors) :
         endMentorshipRelationship(u, id, "mentor")
  \/ \E u \in RatingUsers, kind \in {"mentors", "mentees"}, body \in FailureBodies :
       \E c \in RatingUsers \ {u} : rate(u, kind, c, body.rating, body.feedback)

SpecTwoSubjects == InitTwoSubjects /\ [][NextTwoSubjects]_vars

(***************************************************************************)
(* Properties.                                                             *)
(***************************************************************************)

\* C1: mirror invariant.  In every committed state, learner L holds an
\* active peer-mentor edge (mentor M, subject S) if and only if learner M
\* holds an active peer-mentee edge (mentee L, subject S).
C1_MirrorInvariant ==
  \A L \in Students, M \in Students, S \in Subjects :
    (\E i \in DOMAIN students[L].mentors :
       /\ students[L].mentors[i].mentor_id = M
       /\ students[L].mentors[i].subject_id = S
       /\ students[L].mentors[i].isActive)
    <=>
    (\E j \in DOMAIN students[M].mentees :
       /\ students[M].mentees[j].mentee_id = L
       /\ students[M].mentees[j].subject_id = S
       /\ students[M].mentees[j].isActive)

\* C2: whenever endMentorshipRelationship succeeds on an active edge, every
\* record of the counterpart that mirrors it (same pair, same subject) and
\* was active before the call is inactive after it, whichever side ends
\* the relationship and whatever the pair's earlier history.
C2_EndDeactivatesMirror ==
  [][ (req'.op = "endMentorshipRelationship" /\ Passed(res')) =>
        LET u == req'.user
            t == req'.relationshipType
            edge == endRelationshipList(students[u], t)[req'.relationshipId]
            c == endOtherPartyId(edge, t)
            before == IF t = "mentor" THEN students[c].mentees ELSE students[c].mentors
            after == IF t = "mentor" THEN students'[c].mentees ELSE students'[c].mentors
        IN edge.isActive =>
             \A j \in DOMAIN before :
               (/\ (IF t = "mentor" THEN before[j].mentee_id ELSE before[j].mentor_id) = u
                /\ before[j].subject_id = edge.subject_id
                /\ before[j].isActive)
               => ~after[j].isActive ]_vars

\* C3: no double accept.  A respondToMentorshipRequest that names a request
\* which is no longer pending fails with the already-responded error and
\* changes nothing, whatever the decision; a response that succeeds leaves
\* the request non-pending and adds at most one edge on each side.  Hence
\* at most one edge per side is ever created for one request.
C3_NoDoubleAccept ==
  [][ req'.op = "respondToMentorshipRequest" =>
        LET u == req'.user
            id == req'.requestId
            mentor == students[u]
        IN /\ (/\ Passed(requireCompleteProfile(u))
               /\ id \in DOMAIN mentor.incomingRequests
               /\ mentor.incomingRequests[id].status # "pending")
              => /\ res' = ApiError(400, "Request has already been responded to")
                 /\ students' = students
           /\ Passed(res') =>
                LET l == mentor.incomingRequests[id].student_id
                IN /\ mentor.incomingRequests[id].status = "pending"
                   /\ students'[u].incomingRequests[id].status = req'.response
                   /\ Len(students'[u].mentees) <= Len(students[u].mentees) + 1
                   /\ Len(students'[l].mentors) <= Len(students[l].mentors) + 1 ]_vars

\* a second 'accepted' response to an accepted request has been refused, and
\* the mentor holds exactly one edge with the requester
C3_SecondResponseRefused ==
  /\ req.op = "respondToMentorshipRequest"
  /\ req.response = "accepted"
  /\ res = ApiError(400, "Request has already been responded to")
  /\ LET mentor == students[req.user]
         row == mentor.incomingRequests[req.requestId]
     IN /\ row.status = "accepted"
        /\ Cardinality({i \in DOMAIN mentor.mentees :
                          mentor.mentees[i].mentee_id = row.student_id}) = 1

\* C4: capacity at accept time.  An 'accepted' response to a pending request
\* whose requester's profile exists, given by a responder whose active mentee
\* count equals maxMentees, fails with the capacity error and changes
\* nothing, whenever the request was created and whatever the capacity was
\* then.
C4_AcceptAtCapacityRefused ==
  [][ (req'.op = "respondToMentorshipRequest" /\ req'.response = "accepted") =>
        LET u == req'.user
            id == req'.requestId
            mentor == students[u]
        IN (/\ Passed(requireCompleteProfile(u))
            /\ id \in DOMAIN mentor.incomingRequests
            /\ mentor.incomingRequests[id].status = "pending"
            /\ students[mentor.incomingRequests[id].student_id].exists
            /\ getCurrentMenteeCount(mentor) = mentor.mentorPreferences.maxMentees)
           => /\ res' = ApiError(400, "Mentor capacity reached. Cannot accept more mentees")
              /\ students' = students ]_vars

\* an accept of a request created a week earlier has been refused for
\* capacity, the request is still pending and the mentor is exactly full
C4_OldRequestRefusedForCapacity ==
  /\ req.op = "respondToMentorshipRequest"
  /\ req.response = "accepted"
  /\ res = ApiError(400, "Mentor capacity reached. Cannot accept more mentees")
  /\ LET mentor == students[req.user]
         row == mentor.incomingRequests[req.requestId]
     IN /\ row.status = "pending"
        /\ row.respondedAt = NULL
        /\ now - row.requestedAt >= RATING_MIN_DAYS
        /\ getCurrentMenteeCount(mentor) = mentor.mentorPreferences.maxMentees

\* C5: capacity bound.  In every committed state the number of active
\* peer-mentee edges of a learner is at most its mentorPreferences.maxMentees.
C5_CapacityBound ==
  \A s \in Students :
    students[s].exists =>
      getCurrentMenteeCount(students[s]) <= students[s].mentorPreferences.maxMentees

\* C6: accept-time race.  When a respond handler that loaded the mentor
\* with a free slot saves its acceptance, the mentor's active mentee count
\* stays within maxMentees; and if another handler has filled the slot in
\* the meantime, this one fails with the capacity error and writes nothing.
C6_AcceptRace ==
  [][ \A h \in inflight \ inflight' :
        h.response = "accepted" =>
          /\ getCurrentMenteeCount(students'[h.user])
               <= students'[h.user].mentorPreferences.maxMentees
          /\ ~canAcceptMoreMentees(students[h.user]) =>
               /\ res' = ApiError(400, "Mentor capacity reached. Cannot accept more mentees")
               /\ students' = students ]_vars

\* C7: one mentor per subject.  In every committed state a learner holds at
\* most one active peer-mentor edge per subject.
C7_OneMentorPerSubject ==
  \A s \in Students, subjectId \in Subjects :
    Cardinality({i \in DOMAIN students[s].mentors :
                   /\ students[s].mentors[i].subject_id = subjectId
                   /\ students[s].mentors[i].isActive}) <= 1

\* C8: no duplicate pending request.  In every committed state a learner's
\* outgoing peer queue holds at most one pending row for any (target mentor,
\* subject) pair.
C8_NoDuplicatePending ==
  \A s \in Students, m \in Students, subjectId \in Subjects :
    Cardinality({i \in DOMAIN students[s].outgoingRequests :
                   /\ students[s].outgoingRequests[i].mentor_id = m
                   /\ students[s].outgoingRequests[i].subject_id = subjectId
                   /\ students[s].outgoingRequests[i].status = "pending"}) <= 1

\* C9 as stated: once an edge with a counterpart carries a rating, every
\* later well-formed rate call naming that counterpart fails with the
\* already-rated error and changes nothing.
C9_RatedEdgeRefusesRating ==
  [][ (req'.op = "rate" /\ req'.rating \in 1 .. 5) =>
        LET kind == req'.kind
            list == ratingList(students[req'.user], kind)
        IN (\E i \in DOMAIN list :
              /\ ratingCounterpart(list[i], kind) = req'.counterpartId
              /\ list[i].rating.score # 0)
           => /\ res' = ApiError(400, rateAlreadyRated(kind))
              /\ students' = students ]_vars

\* C9 amended: no rate call changes a stored rating (score, feedback and
\* ratedAt stay as first written), and a well-formed rate call whose
\* counterpart's first active edge already carries a rating fails with the
\* already-rated error and changes nothing.
C9_RatingWrittenOnce ==
  [][ req'.op = "rate" =>
        LET kind == req'.kind
            list == ratingList(students[req'.user], kind)
            idx == rateFind(students[req'.user], kind, req'.counterpartId)
        IN /\ \A s \in Students, k \in RatingKinds :
                \A i \in DOMAIN ratingList(students[s], k) :
                  ratingList(students[s], k)[i].rating.score # 0 =>
                    ratingList(students'[s], k)[i].rating
                      = ratingList(students[s], k)[i].rating
           /\ (req'.rating \in 1 .. 5 /\ idx # 0 /\ list[idx].rating.score # 0)
              => /\ res' = ApiError(400, rateAlreadyRated(kind))
                 /\ students' = students ]_vars

\* a second rating with another score has been refused on a rated edge
C9_SecondRatingRefused ==
  /\ req.op = "rate"
  /\ res = ApiError(400, rateAlreadyRated(req.kind))
  /\ LET list == ratingList(students[req.user], req.kind)
         idx == rateFind(students[req.user], req.kind, req.counterpartId)
     IN /\ idx # 0
        /\ list[idx].rating.score # 0
        /\ list[idx].rating.score # req.rating

\* C10: rating gate.  Every edge that carries a rating was at least
\* RATING_MIN_DAYS days old when it was rated.
C10_RatingGate ==
  \A s \in Students, k \in RatingKinds :
    \A i \in DOMAIN ratingList(students[s], k) :
      LET rel == ratingList(students[s], k)[i]
      IN rel.rating.score # 0 =>
           rel.rating.ratedAt - rel.connectedAt >= RATING_MIN_DAYS

\* C11: fourth-year restriction.  A sendMentorshipRequest issued by a
\* learner whose year is 4 fails and writes nothing, whatever the target.
C11_FourthYearCannotRequest ==
  [][ (req'.op = "sendMentorshipRequest" /\ students[req'.user].year = 4)
        => (~Passed(res') /\ students' = students) ]_vars

\* C12: request preconditions.  Whenever sendMentorshipRequest succeeds, at
\* the moment of the call the requester's profile was complete and in a
\* semester above 1, the target existed, was in the requester's branch,
\* listed the subject among its strong subjects, was available, had fewer
\* active mentees than maxMentees, and the requester had neither an active
\* mentor for the subject nor a pending request to that target for it.
C12_RequestPreconditions ==
  [][ (req'.op = "sendMentorshipRequest" /\ Passed(res')) =>
        LET student == students[req'.user]
            mentor == students[req'.mentorId]
            subjectId == req'.subjectId
        IN /\ student.exists /\ student.profileCompleted
           /\ student.currentSemester > 1
           /\ mentor.exists
           /\ mentor.branch = student.branch
           /\ subjectId \in mentor.strongSubjects
           /\ mentor.mentorPreferences.isAvailableForMentoring
           /\ Cardinality({i \in DOMAIN mentor.mentees : mentor.mentees[i].isActive})
                < mentor.mentorPreferences.maxMentees
           /\ ~\E i \in DOMAIN student.mentors :
                 /\ student.mentors[i].subject_id = subjectId
                 /\ student.mentors[i].isActive
           /\ ~\E i \in DOMAIN student.outgoingRequests :
                 /\ student.outgoingRequests[i].mentor_id = req'.mentorId
                 /\ student.outgoingRequests[i].subject_id = subjectId
                 /\ student.outgoingRequests[i].status = "pending" ]_vars

\* a request has been sent again after the first one to the same target for
\* the same subject was rejected
C12_SentAgainAfterRejection ==
  /\ req.op = "sendMentorshipRequest"
  /\ res = ApiResponse(201, "Mentorship request sent successfully")
  /\ LET rows == students[req.user].outgoingRequests
     IN \E i \in DOMAIN rows, j \in DOMAIN rows :
          /\ i < j
          /\ rows[i].mentor_id = req.mentorId /\ rows[j].mentor_id = req.mentorId
          /\ rows[i].subject_id = req.subjectId /\ rows[j].subject_id = req.subjectId
          /\ rows[i].status = "rejected" /\ rows[j].status = "pending"

RequestStatuses == {"pending", "accepted", "rejected"}

OutgoingCount(requester, target, subjectId, status) ==
  LET rows == students[requester].outgoingRequests
  IN Cardinality({i \in DOMAIN rows : /\ rows[i].mentor_id = target
                                     /\ rows[i].subject_id = subjectId
                                     /\ rows[i].status = status})

IncomingCount(requester, target, subjectId, status) ==
  LET rows == students[target].incomingRequests
  IN Cardinality({i \in DOMAIN rows : /\ rows[i].student_id = requester
                                     /\ rows[i].subject_id = subjectId
                                     /\ rows[i].status = status})

\* C13: request rows synchronized.  Under sequences of send and respond
\* operations, the multiset of (requester, target, subject, status) over all
\* outgoing rows equals the one over all incoming rows.
C13_RequestRowsSynchronized ==
  \A requester \in Students, target \in Students,
     subjectId \in Subjects, status \in RequestStatuses :
    OutgoingCount(requester, target, subjectId, status)
      = IncomingCount(requester, target, subjectId, status)

\* a second request to the same target for the same subject has been
\* accepted after the first one was rejected
C13_AcceptedAfterRejection ==
  /\ req.op = "respondToMentorshipRequest" /\ Passed(res)
  /\ \E requester \in Students, target \in Students, subjectId \in Subjects :
       /\ OutgoingCount(requester, target, subjectId, "rejected") = 1
       /\ OutgoingCount(requester, target, subjectId, "accepted") = 1
       /\ IncomingCount(requester, target, subjectId, "accepted") = 1

\* C14: terminal states are absorbing.  A peer or official request row whose
\* status is accepted or rejected never changes status again, and a peer or
\* official edge whose isActive is false is never set back to active.
C14_TerminalAbsorbing ==
  [][ \A s \in Students :
        /\ \A i \in DOMAIN students[s].incomingRequests \cap DOMAIN students'[s].incomingRequests :
             students[s].incomingRequests[i].status # "pending"
               => students'[s].incomingRequests[i].status = students[s].incomingRequests[i].status
        /\ \A i \in DOMAIN students[s].outgoingRequests \cap DOMAIN students'[s].outgoingRequests :
             students[s].outgoingRequests[i].status # "pending"
               => students'[s].outgoingRequests[i].status = students[s].outgoingRequests[i].status
        /\ \A i \in DOMAIN students[s].officialOutgoingRequests
                      \cap DOMAIN students'[s].officialOutgoingRequests :
             students[s].officialOutgoingRequests[i].status # "pending"
               => students'[s].officialOutgoingRequests[i].status
                    = students[s].officialOutgoingRequests[i].status
        /\ \A i \in DOMAIN students[s].mentors \cap DOMAIN students'[s].mentors :
             ~students[s].mentors[i].isActive => ~students'[s].mentors[i].isActive
        /\ \A i \in DOMAIN students[s].mentees \cap DOMAIN students'[s].mentees :
             ~students[s].mentees[i].isActive => ~students'[s].mentees[i].isActive
        /\ \A i \in DOMAIN students[s].officialActiveMentors
                      \cap DOMAIN students'[s].officialActiveMentors :
             ~students[s].officialActiveMentors[i].isActive
               => ~students'[s].officialActiveMentors[i].isActive ]_vars

\* the answers by which a handler refuses a call for a business rule
BusinessRuleError(r) == r.statusCode \in 400 .. 499

\* C15: no mutation on failure.  When sendMentorshipRequest,
\* respondToMentorshipRequest, endMentorshipRelationship or a rate operation
\* returns a business-rule error, the stored documents are those before the
\* call; an accept refused for capacity leaves the request pending with
\* respondedAt unset on both sides and adds no edge.
C15_NoMutationOnFailure ==
  [][ (/\ req'.op \in {"sendMentorshipRequest", "respondToMentorshipRequest",
                       "endMentorshipRelationship", "rate"}
       /\ BusinessRuleError(res'))
      => /\ students' = students
         /\ res'.message = "Mentor capacity reached. Cannot accept more mentees"
              => LET mentor == students'[req'.user]
                     request == mentor.incomingRequests[req'.requestId]
                     student == students'[request.student_id]
                 IN /\ request.status = "pending" /\ request.respondedAt = NULL
                    /\ \E i \in DOMAIN student.outgoingRequests :
                         /\ student.outgoingRequests[i].mentor_id = req'.user
                         /\ student.outgoingRequests[i].subject_id = request.subject_id
                         /\ student.outgoingRequests[i].status = "pending"
                         /\ student.outgoingRequests[i].respondedAt = NULL
                    /\ Len(mentor.mentees) = Len(students[req'.user].mentees)
                    /\ Len(student.mentors) = Len(students[request.student_id].mentors)
    ]_vars

\* an accept has just been refused for capacity while the mentor holds an
\* active mentee and the refused request is still pending
C15_AcceptRefusedForCapacity ==
  /\ req.op = "respondToMentorshipRequest" /\ req.response = "accepted"
  /\ res = ApiError(400, "Mentor capacity reached. Cannot accept more mentees")
  /\ students[req.user].incomingRequests[req.requestId].status = "pending"
  /\ \E i \in DOMAIN students[req.user].mentees : students[req.user].mentees[i].isActive

\* C16: notification failures are isolated.  When the emitter throws during
\* a request, a respond, a removeMentee or a rate operation that has written
\* its mutation, the operation still answers with success.
C16_NotificationFailureIsolated ==
  [][ (/\ req'.op \in {"sendMentorshipRequest", "respondToMentorshipRequest",
                       "sendOfficialMentorRequest", "respondToOfficialRequest",
                       "removeMentee", "rate"}
       /\ emitter = "down"
       /\ students' # students)
      => Passed(res') ]_vars

\* C17: partial commit is surfaced.  When respondToMentorshipRequest or
\* endMentorshipRelationship fails after the write to one document has
\* committed, the caller's answer differs from the answer of a failure in
\* which nothing was written.
C17_PartialCommitSurfaced ==
  [][ (/\ req'.op \in {"respondToMentorshipRequest", "endMentorshipRelationship"}
       /\ ~Passed(res')
       /\ students' # students)
      => res' # errorHandler(StoreError) ]_vars

\* C18: connection notifications.  A successful peer acceptance with a
\* working emitter emits the accepted-response notification to the
\* requester, then one connection notification to the requester (new
\* mentor) and one to the responder (new mentee); a rejection emits no
\* connection notification.
C18_ConnectionNotifications ==
  [][ (/\ req'.op = "respondToMentorshipRequest"
       /\ Passed(res')
       /\ emitter = "up")
      => LET responder == req'.user
             requester == students[responder].incomingRequests[req'.requestId].student_id
         IN IF req'.response = "accepted"
            THEN sent' = <<notifyMentorshipResponse(requester, "accepted"),
                           notifyNewConnection(requester, "mentor"),
                           notifyNewConnection(responder, "mentee")>>
            ELSE \A i \in DOMAIN sent' :
                   sent'[i].type \notin {"new_mentor_connection", "new_mentee_connection"}
    ]_vars

\* C19: official requests are answered only by their addressee.  A
\* successful answer to an official request comes from the mentor account
\* named in the request's mentor_id, and the edge an acceptance creates
\* carries that mentor_id.
C19_AnsweredByAddressee ==
  [][ (req'.op = "respondToOfficialRequest" /\ Passed(res'))
      => LET request == students[req'.studentId].officialOutgoingRequests[req'.requestId]
             edges == students'[req'.studentId].officialActiveMentors
         IN /\ req'.user = request.mentor_id
            /\ req'.response = "accepted"
                 => /\ Len(edges) = Len(students[req'.studentId].officialActiveMentors) + 1
                    /\ edges[Len(edges)].mentor_id = request.mentor_id ]_vars

\* C20: removeMentee removes every row.  After removeMentee(mentor,
\* student) succeeds, the student's officialMentors.activeMentors holds no
\* row, active or inactive, whose mentor_id is that mentor.
C20_RemoveMenteeRemovesAllRows ==
  [][ (req'.op = "removeMentee" /\ Passed(res'))
      => \A i \in DOMAIN students'[req'.studentId].officialActiveMentors :
           students'[req'.studentId].officialActiveMentors[i].mentor_id # req'.user
    ]_vars

\* NotFound, as the handlers spell it
NotFound(r) == r.statusCode = 404

\* C21: ending is one-shot.  An end call on an edge that is already
\* deactivated or removed fails with NotFound and changes nothing, for the
\* learner's peer end, the learner's official end, the mentor's official end
\* and removeMentee.
C21_EndIsOneShot ==
  [][ /\ (/\ req'.op = "endMentorshipRelationship"
          /\ req'.relationshipId
               \in DOMAIN endRelationshipList(students[req'.user], req'.relationshipType)
          /\ ~endRelationshipList(students[req'.user],
                                  req'.relationshipType)[req'.relationshipId].isActive)
         => (NotFound(res') /\ students' = students)
      /\ (/\ req'.op = "endOfficialMentorshipRelationship"
          /\ req'.relationshipId \in DOMAIN students[req'.user].officialActiveMentors
          /\ ~students[req'.user].officialActiveMentors[req'.relationshipId].isActive)
         => (NotFound(res') /\ students' = students)
      /\ (/\ req'.op = "mentorEndMentorshipRelationship"
          /\ ~hasActiveOfficialMentor(students[req'.studentId], req'.user))
         => (NotFound(res') /\ students' = students)
      /\ (/\ req'.op = "removeMentee"
          /\ \A i \in DOMAIN students[req'.studentId].officialActiveMentors :
               students[req'.studentId].officialActiveMentors[i].mentor_id # req'.user)
         => (NotFound(res') /\ students' = students) ]_vars

\* C22: scenario error kinds.  Mentor A, available and with maxMentees 1,
\* has accepted B's request for subject X.  B's next request to A for X is
\* refused because B already has a mentor for the subject, C's request to A
\* for X is refused for capacity, and neither writes a request row.
C22_ScenarioErrorKinds ==
  [][ (/\ req'.op = "sendMentorshipRequest"
       /\ req'.mentorId = "A" /\ req'.subjectId = "X"
       /\ students["A"].exists /\ students["B"].exists /\ students["C"].exists
       /\ students["A"].mentorPreferences.isAvailableForMentoring
       /\ students["A"].mentorPreferences.maxMentees = 1
       /\ \E i \in DOMAIN students["A"].mentees :
            /\ students["A"].mentees[i].mentee_id = "B"
            /\ students["A"].mentees[i].subject_id = "X"
            /\ students["A"].mentees[i].isActive
       /\ \E i \in DOMAIN students["B"].mentors :
            /\ students["B"].mentors[i].mentor_id = "A"
            /\ students["B"].mentors[i].subject_id = "X"
            /\ students["B"].mentors[i].isActive)
      => /\ students' = students
         /\ req'.user = "B"
              => res' = ApiError(400, "You already have a mentor for this subject")
         /\ req'.user = "C"
              => res' = ApiError(400, "Mentor has reached maximum mentee capacity")
    ]_vars

\* C23: the profileCompleted flag.  In every committed state a learner's
\* profileCompleted equals (name, phone, branch, year and currentSemester
\* present and strongSubjects non-empty).
C23_ProfileCompletedFlag ==
  \A s \in Students :
    students[s].exists =>
      (students[s].profileCompleted <=>
         (/\ students[s].name # "" /\ students[s].phone # ""
          /\ students[s].branch # "" /\ students[s].year # 0
          /\ students[s].currentSemester # 0
          /\ students[s].strongSubjects # {}))

\* C24: year/term consistency.  In every committed state a learner's
\* currentSemester lies in the range of its year: year 1 in {1,2}, year 2 in
\* {3,4}, year 3 in {5,6}, year 4 in {7,8}.
C24_YearTermConsistency ==
  \A s \in Students :
    students[s].exists =>
      students[s].currentSemester \in {2 * students[s].year - 1, 2 * students[s].year}

\* C25: official requests are not duplicated.  In every committed state a
\* learner has at most one pending official request and at most one active
\* official edge per mentor.
C25_NoDuplicateOfficial ==
  \A s \in Students, m \in Mentors :
    /\ Cardinality({i \in DOMAIN students[s].officialOutgoingRequests :
                      /\ students[s].officialOutgoingRequests[i].mentor_id = m
                      /\ students[s].officialOutgoingRequests[i].status = "pending"}) <= 1
    /\ Cardinality({i \in DOMAIN students[s].officialActiveMentors :
                      /\ students[s].officialActiveMentors[i].mentor_id = m
                      /\ students[s].officialActiveMentors[i].isActive}) <= 1

\* C26: ratings address a specific edge.  While a learner holds an active,
\* unrated peer-mentor edge to a mentor, a valid rating of that mentor is
\* stored on such an edge: a rating given on another edge to the same mentor
\* does not block it.
C26_RatingAddressesEdge ==
  [][ (/\ req'.op = "rate" /\ req'.kind = "mentors"
       /\ req'.rating \in 1 .. 5
       /\ \E i \in DOMAIN students[req'.user].mentors :
            /\ students[req'.user].mentors[i].mentor_id = req'.counterpartId
            /\ students[req'.user].mentors[i].isActive
            /\ students[req'.user].mentors[i].rating.score = 0)
      => \E i \in DOMAIN students[req'.user].mentors :
           /\ students[req'.user].mentors[i].mentor_id = req'.counterpartId
           /\ students[req'.user].mentors[i].isActive
           /\ students[req'.user].mentors[i].rating.score = 0
           /\ students'[req'.user].mentors[i].rating.score = req'.rating ]_vars

\* C27: no self-mentoring.  No learner holds a peer request row or a peer
\* edge whose counterpart is the learner itself.
C27_NoSelfMentoring ==
  \A u \in Students :
    /\ \A i \in DOMAIN students[u].outgoingRequests :
         students[u].outgoingRequests[i].mentor_id # u
    /\ \A i \in DOMAIN students[u].incomingRequests :
         students[u].incomingRequests[i].student_id # u
    /\ \A i \in DOMAIN students[u].mentors : students[u].mentors[i].mentor_id # u
    /\ \A i \in DOMAIN students[u].mentees : students[u].mentees[i].mentee_id # u

\* C28: deletion leaves no dangling relationship.  When the profile of a
\* learner L is gone, no remaining learner holds an active peer edge or a
\* pending peer request whose counterpart is L, and L is not counted in any
\* mentor's active mentees.
C28_NoDanglingAfterDelete ==
  \A L \in Students : ~students[L].exists =>
    \A u \in Students \ {L} :
      /\ \A i \in DOMAIN students[u].mentors :
           ~(students[u].mentors[i].mentor_id = L /\ students[u].mentors[i].isActive)
      /\ \A i \in DOMAIN students[u].mentees :
           ~(students[u].mentees[i].mentee_id = L /\ students[u].mentees[i].isActive)
      /\ \A i \in DOMAIN students[u].outgoingRequests :
           ~(/\ students[u].outgoingRequests[i].mentor_id = L
             /\ students[u].outgoingRequests[i].status = "pending")
      /\ \A i \in DOMAIN students[u].incomingRequests :
           ~(/\ students[u].incomingRequests[i].student_id = L
             /\ students[u].incomingRequests[i].status = "pending")

\* C29: updateStudentProfile changes descriptive fields only.  Whatever the
\* body, the caller's request queues, peer edges with their ratings,
\* official requests and edges, and mentor preferences are left as they were.
C29_UpdateKeepsRelationships ==
  [][ req'.op = "updateStudentProfile" =>
        LET before == students[req'.user]
            after == students'[req'.user]
        IN /\ after.outgoingRequests = before.outgoingRequests
           /\ after.incomingRequests = before.incomingRequests
           /\ after.mentors = before.mentors
           /\ after.mentees = before.mentees
           /\ after.officialOutgoingRequests = before.officialOutgoingRequests
           /\ after.officialActiveMentors = before.officialActiveMentors
           /\ after.mentorPreferences = before.mentorPreferences ]_vars

\* C30: a pending peer request is never permanently unanswerable.  Whenever
\* the target of a pending incoming row answers it with 'rejected', the call
\* succeeds and the row becomes rejected.
C30_PendingCanBeRejected ==
  [][ (/\ req'.op = "respondToMentorshipRequest"
       /\ req'.response = "rejected"
       /\ req'.requestId \in DOMAIN students[req'.user].incomingRequests
       /\ students[req'.user].incomingRequests[req'.requestId].status = "pending")
      => /\ Passed(res')
         /\ students'[req'.user].incomingRequests[req'.requestId].status
              = "rejected" ]_vars
====
